---- MODULE Spec2Model ----
(***************************************************************************)
(* Instanced ground cover, its loader, the ground-following actor and the  *)
(* per-frame uniform updates of chilled-portfolio.                         *)
(*                                                                         *)
(* Numbers are fixed point: one unit of the source is Scale (100) units    *)
(* here, so 1.2 is 120 and Math.random() ranges over 0..99.  The JS values *)
(* undefined and NaN are the two sentinels Undefined and NaN.              *)
(***************************************************************************)
EXTENDS Integers, Sequences, FiniteSets, TLC

\* ------------------------------------------------------------------ bounds
\* Instance budget of the loader (400000 in the source), scaled down so that
\* source buffers larger than the budget can be enumerated.
REDUCED_INSTANCE_COUNT == 4
\* Largest number of whole source instances in a position buffer.
MaxSrc == 10
\* Largest explicit instanceCount prop.
MaxOverride == 6
\* Number of loads one component instance may start (first load + reloads).
MaxLoads == 2
\* Number of frames of the render loop that are explored.
MaxTicks == 4
\* Number of pointer events delivered to the actor.
MaxPointer == 2
\* Clock time between two frames, in 1/100 s.
FrameDt == 2
MaxEvents == 14
MaxPortalFrames == 2

\* --------------------------------------------------------- JS value model
Scale == 100
NaN == -1000000
Undefined == -2000000

IsNum(v) == v # NaN /\ v # Undefined

Min(a, b) == IF a <= b THEN a ELSE b
Max(a, b) == IF a >= b THEN a ELSE b

\* a + b of JS: undefined or NaN operands give NaN
Add(a, b) == IF IsNum(a) /\ IsNum(b) THEN a + b ELSE NaN
\* a * b of JS on fixed-point operands
Mul(a, b) == IF IsNum(a) /\ IsNum(b) THEN (a * b) \div Scale ELSE NaN
\* a ?? d of JS: undefined is replaced, NaN is kept
Nullish(a, d) == IF a = Undefined THEN d ELSE a
\* truthiness of a number-or-undefined prop: undefined, 0 and NaN are falsy
Truthy(a) == a # Undefined /\ a # NaN /\ a # 0
\* typed-array read: an index past the end reads undefined
At(buf, k) == IF k >= 0 /\ k < Len(buf) THEN buf[k + 1] ELSE Undefined

\* Math.random(): the d-th draw of the stream started by seed, in 0..99
Random(seed, d) == (seed + 37 * d) % Scale

\* ------------------------------------------------------ fetchBinaryData
TEXTURE_COUNT == 4
\* draws of Math.random() made for one output instance
DrawsPerInstance == 10

inferredCountOf(positions) == Len(positions) \div 3

maxCountOfUnclamped(positions) == inferredCountOf(positions)

\* let maxCount = Math.min(inferredCount, REDUCED_INSTANCE_COUNT)
maxCountOf(positions) == Min(inferredCountOf(positions), REDUCED_INSTANCE_COUNT)

useSmartSamplingOf(positions) == inferredCountOf(positions) > REDUCED_INSTANCE_COUNT

\* const count = instanceCount ? Math.min(instanceCount, maxCount) : maxCount
countOf(positions, instanceCount) ==
  IF Truthy(instanceCount) THEN Min(instanceCount, maxCountOf(positions))
  ELSE maxCountOf(positions)

sourceIndexOfTruncating(positions, instanceCount, i) == i

sourceIndexOfUpperEdge(positions, instanceCount, i) ==
  IF useSmartSamplingOf(positions)
  THEN ((i + 1) * inferredCountOf(positions)) \div countOf(positions, instanceCount)
  ELSE i

\* sourceIndex = useSmartSampling ? floor((i / count) * inferredCount) : i
sourceIndexOf(positions, instanceCount, i) ==
  IF useSmartSamplingOf(positions)
  THEN (i * inferredCountOf(positions)) \div countOf(positions, instanceCount)
  ELSE i

\* rotation: [rot[i3] + 0.5*r0, rot[i3+1] * r1, rot[i3+2] - 1 + 0.5*r2]
\* (read at i3 = i * 3, without a ?? default)
rotationOf(rotations, i, seed) ==
  LET i3 == i * 3
      d  == i * DrawsPerInstance
  IN << Add(At(rotations, i3), Mul(50, Random(seed, d))),
        Mul(At(rotations, i3 + 1), Random(seed, d + 1)),
        Add(Add(At(rotations, i3 + 2), -Scale), Mul(50, Random(seed, d + 2))) >>

\* scale: [(s ?? 1) * (0.8 + r*0.4), (s ?? 1) * (0.9 + r*0.2), (s ?? 1) * (0.8 + r*0.4)]
scaleOf(scales, sourceI3, i, seed) ==
  LET d == i * DrawsPerInstance
  IN << Mul(Nullish(At(scales, sourceI3), Scale), 80 + Mul(Random(seed, d + 3), 40)),
        Mul(Nullish(At(scales, sourceI3 + 1), Scale), 90 + Mul(Random(seed, d + 4), 20)),
        Mul(Nullish(At(scales, sourceI3 + 2), Scale), 80 + Mul(Random(seed, d + 5), 40)) >>

positionOf(positions, sourceI3) ==
  << Nullish(At(positions, sourceI3), 0),
     Nullish(At(positions, sourceI3 + 1), 0),
     Nullish(At(positions, sourceI3 + 2), 0) >>

\* Math.max(0, Math.min(1, c + (Math.random() - 0.5) * colorVar)), colorVar = 0.1
colorChannel(c, r) ==
  LET v == Add(c, Mul(r - 50, 10))
  IN IF IsNum(v) THEN Max(0, Min(Scale, v)) ELSE NaN

colorOf(colors, sourceI3, i, seed) ==
  LET d == i * DrawsPerInstance
  IN << colorChannel(Nullish(At(colors, sourceI3), 0), Random(seed, d + 6)),
        colorChannel(Nullish(At(colors, sourceI3 + 1), 0), Random(seed, d + 7)),
        colorChannel(Nullish(At(colors, sourceI3 + 2), 0), Random(seed, d + 8)) >>

texIdxOfRounded(i, seed) ==
  (Random(seed, i * DrawsPerInstance + 9) * TEXTURE_COUNT + 50) \div Scale

\* texIdxArr[i] = Math.floor(Math.random() * TEXTURE_COUNT)
texIdxOf(i, seed) ==
  (Random(seed, i * DrawsPerInstance + 9) * TEXTURE_COUNT) \div Scale

\* The value fetchBinaryData resolves with for the four parsed buffers.
\* in = [positions, rotations, scales, colors, seed]; JS index i is i+1 here.
fetchBinaryData(in, instanceCount) ==
  LET count == countOf(in.positions, instanceCount)
      src(i) == sourceIndexOf(in.positions, instanceCount, i) * 3
  IN [ transformArray |->
         [ n \in 1..count |->
             [ position |-> positionOf(in.positions, src(n - 1)),
               rotation |-> rotationOf(in.rotations, n - 1, in.seed),
               scale    |-> scaleOf(in.scales, src(n - 1), n - 1, in.seed) ] ],
       instColors |->
         [ m \in 1..(count * 3) |->
             colorOf(in.colors, src((m - 1) \div 3), (m - 1) \div 3, in.seed)[((m - 1) % 3) + 1] ],
       texIdxArr |-> [ n \in 1..count |-> texIdxOf(n - 1, in.seed) ] ]

\* ------------------------------------------------------------ the inputs
\* A parsed buffer of len floats; the k-th float is base + k, so that a value
\* read from it names the index it was read from.
MakeBuf(len, base) == [k \in 1..len |-> base + (k - 1)]

Overrides == {Undefined} \cup (0..MaxOverride)
Seeds == {0, 63}

\* lengths of the position buffer: every length up to MaxSrc instances and
\* two floats of a truncated triple
PosLens == 0..(3 * MaxSrc + 2)
\* lengths of the rotation, scale and color buffers: empty, one instance and
\* one float, or as long as the longest position buffer
OtherLens == {0, 4, 3 * MaxSrc + 2}

LoaderInputs ==
  { [positions |-> MakeBuf(pl, 100), rotations |-> MakeBuf(rl, 200),
     scales |-> MakeBuf(sl, 50), colors |-> MakeBuf(cl, 10), seed |-> sd] :
      pl \in PosLens, rl \in OtherLens, sl \in OtherLens, cl \in OtherLens,
      sd \in Seeds }

\* the instanceCount props the component is rendered with
ComponentOverrides == {Undefined, 0, 1, 2, MaxOverride}

\* the buffers the component's fetches can resolve with
ComponentInputs ==
  { [positions |-> MakeBuf(pl, 100), rotations |-> MakeBuf(pl, 200),
     scales |-> MakeBuf(pl, 50), colors |-> MakeBuf(pl, 10), seed |-> sd] :
      pl \in {0, 4, 3 * MaxSrc}, sd \in Seeds }

\* ------------------------------------------------------------------ state
VARIABLES
  \* fetchBinaryData on its own: its inputs and the value it resolved with
  ldInput, ldInstanceCount, ldResult,
  \* PlaneInstancerWithColor
  instanceCount,        \* the instanceCount prop of the last render
  alive,                \* the component is mounted
  loads,                \* the load effects started so far, oldest first
  transforms, instanceColorArray, textureIndexArray,   \* React state
  queue,                \* state updates enqueued and not rendered yet
  effectPending,        \* the upload effect is scheduled
  mesh,                 \* the instancedMesh: its count and instance matrices
  geomAttrs,            \* the color and aTextureIndex attributes
  uploaded,             \* the arrays the last upload effect was run with
  drawn,                \* what the last draw of the mesh submitted
  \* the render loop: MovingSphere, the uniforms, the draw
  pc,                   \* the step of the frame that runs next
  tick, elapsed,        \* frames completed, clock.getElapsedTime()
  scene,                \* the meshes of the scene in traversal order
  isInitialized, baseMesh,
  spherePosition,       \* sphereRef.current.position
  sphereTarget, cameraOffset, cameraPosition, cameraLookAt,
  currentPosition,      \* MovingSphere state handed to the ribbons
  spherePosRef,         \* PlaneInstancerWithColor's copy of the actor position
  appSpherePosition,    \* App state set by onSphereMove
  shader, frameCounter,
  pointerCount,         \* pointer events delivered so far
  lastUpdate,           \* what the actor's update of the current frame did
  writes,               \* uniform writes of the current frame
  drawnU,               \* the uniforms the last draw used
  notified,             \* the onSphereMove calls of the current frame, in order
  \* the vertex shader on one vertex: its inputs and what it computed
  vsInput, vsResult,
  \* the fragment shader on one fragment: its inputs and whether it discarded
  fsInput, fsResult,
  \* App: the swarm control
  swarmMode,            \* App state
  renderedMode,         \* the swarmMode the cycleSwarmMode of the last render closed over
  listenerMode,         \* the swarmMode the registered keydown listener closed over
  events, activations,  \* DOM events handled, and those of them that cycled the mode
  lastEvent,            \* the DOM event handled last
  \* PortalPlane
  gl,                   \* the renderer state the frame callback reads and writes
  portalScene,          \* scene.background, scene.environment, the objects of the scene
  portalReady,          \* planeRef, portalCamera and renderTarget are set
  portalFrames,         \* frame callbacks run so far
  portalBefore,         \* renderer and scene as the last callback found them
  portalRendered        \* renderer and scene as gl.render of the last callback saw them

loaderVars == << ldInput, ldInstanceCount, ldResult >>
componentVars == << instanceCount, alive, loads, transforms, instanceColorArray,
                    textureIndexArray, queue, effectPending, mesh, geomAttrs,
                    uploaded, drawn >>
frameVars == << pc, tick, elapsed, scene, isInitialized, baseMesh, spherePosition,
                sphereTarget, cameraOffset, cameraPosition, cameraLookAt,
                currentPosition, spherePosRef, appSpherePosition, shader,
                frameCounter, pointerCount, lastUpdate, writes, drawnU,
                notified >>
shaderVars == << vsInput, vsResult, fsInput, fsResult >>
appVars == << swarmMode, renderedMode, listenerMode, events, activations, lastEvent >>
portalVars == << gl, portalScene, portalReady, portalFrames, portalBefore, portalRendered >>
vars == << loaderVars, componentVars, frameVars, shaderVars, appVars, portalVars >>

\* A React state cell or attribute holding null or an array; load names the
\* load effect that produced the array.
NullCell == [isNull |-> TRUE, load |-> 0, data |-> << >>]
Cell(k, arr) == [isNull |-> FALSE, load |-> k, data |-> arr]

\* ------------------------------------------------------ MovingSphere
SPHERE_MOVE_SPEED == 1
CAMERA_FOLLOW_SPEED == 1
CAMERA_DISTANCE == 500
CAMERA_HEIGHT_OFFSET == 120
SPHERE_HEIGHT_OFFSET == 120
\* lookAtTarget.y += 0.5
LOOK_AT_BIAS == 50
UPDATE_FREQUENCY == 2
\* shader.uniforms.time.value = currentTime * 2.5
TIME_FACTOR == 250

lerpWeightsSwapped(x, y, t) == (t * x + (Scale - t) * y) \div Scale

\* THREE.MathUtils.lerp(x, y, t) = (1 - t) * x + t * y, rounded to the
\* resolution of the arithmetic
lerp(x, y, t) == ((Scale - t) * x + t * y) \div Scale

\* Vector3.lerp(v, alpha): this.c += (v.c - this.c) * alpha
VecLerp(a, v, alpha) == [c \in 1..3 |-> a[c] + Mul(v[c] - a[c], alpha)]

VecSub(a, b) == [c \in 1..3 |-> a[c] - b[c]]
Abs(x) == IF x < 0 THEN -x ELSE x

\* Math.sqrt on fixed-point squares: the floor of the root
ISqrt(n, hi) == CHOOSE r \in 0..hi : r * r <= n /\ n < (r + 1) * (r + 1)

\* Vector3.length()
VecLength(v) ==
  ISqrt(v[1] * v[1] + v[2] * v[2] + v[3] * v[3], Abs(v[1]) + Abs(v[2]) + Abs(v[3]))

\* Vector3.normalize(): divideScalar(length() || 1)
Normalize(v) ==
  LET len == VecLength(v)
      d   == IF len = 0 THEN Scale ELSE len
  IN [c \in 1..3 |-> (v[c] * Scale) \div d]

\* The meshes a scene.traverse visits, in order.  words are the substrings
\* among grass/instance/ribbon/trail/particle/point that the name contains.
Child(kind, isMesh, geometryType, words) ==
  [kind |-> kind, isMesh |-> isMesh, geometryType |-> geometryType, words |-> words]

ActorMesh == Child("actor", TRUE, "SphereGeometry", {})
GrassMesh == Child("groundcover", TRUE, "PlaneGeometry", {})
GroundMesh == Child("terrain", TRUE, "BufferGeometry", {})
GroupNode == Child("group", FALSE, "none", {})
RibbonMesh == Child("effect", TRUE, "BufferGeometry", {})
TrailMesh == Child("effect", TRUE, "BufferGeometry", {"trail"})
RockMesh == Child("terrain", TRUE, "BufferGeometry", {})

Scenes ==
  { << GroupNode, GroundMesh, ActorMesh, TrailMesh, GrassMesh >>,
    << GroupNode, ActorMesh, TrailMesh, GrassMesh >>,
    << GroundMesh, ActorMesh, RibbonMesh, GrassMesh >>,
    << GroundMesh, RockMesh, ActorMesh >> }

\* the test of the traverse callback on one child
IsBaseMeshCandidate(child) ==
  /\ child.isMesh
  /\ child.geometryType = "BufferGeometry"
  /\ "grass" \notin child.words
  /\ "instance" \notin child.words
  /\ "ribbon" \notin child.words /\ "trail" \notin child.words
  /\ "particle" \notin child.words /\ "point" \notin child.words

\* scene.traverse(callback): the callback runs on every child in order, and
\* its return only ends that one call; found is baseMeshRef.current so far
RECURSIVE traverse(_, _, _)
traverse(sc, i, found) ==
  IF i > Len(sc) THEN found
  ELSE traverse(sc, i + 1, IF IsBaseMeshCandidate(sc[i]) THEN i ELSE found)

\* outcomes of raycaster.intersectObject: no hit, or the y of the first hit
RayMiss == Undefined
RayOutcomes == {RayMiss, 0, 80}

\* intersections of a pointer event on the base mesh
HitPoints == { << 500, 0, 500 >>, << -300, 300, 100 >>, << 30, 0, 40 >> }
PointerEvents ==
  { << >> } \cup { << h >> : h \in HitPoints }
    \cup { << h, g >> : h \in HitPoints, g \in HitPoints }

nextYHeightSmoothedToGround(hasBaseMesh, outcome, y, targetY) ==
  IF hasBaseMesh /\ outcome # RayMiss
  THEN lerp(y, outcome + SPHERE_HEIGHT_OFFSET, SPHERE_MOVE_SPEED)
  ELSE lerp(y, targetY, SPHERE_MOVE_SPEED)

nextYHeightDefaultWithoutMesh(hasBaseMesh, outcome, y, targetY) ==
  IF hasBaseMesh
  THEN IF outcome # RayMiss THEN outcome + SPHERE_HEIGHT_OFFSET
       ELSE lerp(y, targetY, SPHERE_MOVE_SPEED)
  ELSE SPHERE_HEIGHT_OFFSET

\* nextYHeight of the frame callback
nextYHeight(hasBaseMesh, outcome, y, targetY) ==
  IF hasBaseMesh
  THEN IF outcome # RayMiss
       THEN outcome + SPHERE_HEIGHT_OFFSET
       ELSE lerp(y, targetY, SPHERE_MOVE_SPEED)
  ELSE lerp(y, targetY, SPHERE_MOVE_SPEED)

publishedTarget(pos) == sphereTarget

publishedBeforeHeight(pos) == << pos[1], spherePosition[2], pos[3] >>

\* onSphereMove(sphereRef.current.position.clone())
publishedPosition(pos) == pos

\* handleSphereMove(newPosition): spherePosRef.current.copy(newPosition)
handleSphereMove(newPosition) == newPosition

timeWriteEveryFrame(fc) == TRUE

\* if (frameCounter.current % UPDATE_FREQUENCY === 0)
timeWriteDue(fc) == fc % UPDATE_FREQUENCY = 0

NoUpdate == [ran |-> FALSE, hasBaseMesh |-> FALSE, outcome |-> RayMiss,
             prevY |-> 0, targetY |-> 0, prevX |-> 0, targetX |-> 0,
             prevZ |-> 0, targetZ |-> 0]
NoWrites == [ran |-> FALSE, time |-> 0, cameraPos |-> 0, spherePos |-> 0]
Zero3 == << 0, 0, 0 >>
DefaultTarget == << 0, SPHERE_HEIGHT_OFFSET, 0 >>

FrameStart(sc) ==
  /\ pc = "actor" /\ tick = 0 /\ elapsed = 0
  /\ scene = sc
  /\ isInitialized = FALSE /\ baseMesh = 0
  /\ spherePosition = Zero3
  /\ sphereTarget = DefaultTarget
  /\ cameraOffset = << -CAMERA_DISTANCE, 0, 0 >>
  /\ cameraPosition = << 400, 400, 400 >>
  /\ cameraLookAt = Zero3
  /\ currentPosition = DefaultTarget
  /\ spherePosRef = DefaultTarget
  /\ appSpherePosition = [isNull |-> TRUE, value |-> Zero3]
  /\ shader = [exists |-> FALSE, time |-> 0, cameraPos |-> Zero3, spherePos |-> Zero3]
  /\ frameCounter = 0
  /\ pointerCount = 0
  /\ lastUpdate = NoUpdate
  /\ writes = NoWrites
  /\ drawnU = [any |-> FALSE, time |-> 0, cameraPos |-> Zero3, spherePos |-> Zero3]
  /\ notified = << >>

FrameIdle == FrameStart(<< >>)

\* ---------------------------------------------------- the vertex shader
\* planeSize = 2.2
planeSize == 220
\* bendRadius: { value: 3.70 }, bendStrength: { value: 0.80 }
bendRadius == 370
bendStrength == 80

\* new THREE.PlaneGeometry(width, height): the corners of the quad, which is
\* centred on its local origin
PlaneGeometry(width, height) ==
  { << x, y, 0 >> : x \in { -(width \div 2), width \div 2 },
                    y \in { -(height \div 2), height \div 2 } }

\* (modelMatrix * instanceMatrix * vec4(position, 1.0)).xyz for an instance
\* whose matrix is the translation by offset
worldPosition(position, offset) == [c \in 1..3 |-> offset[c] + position[c]]

\* distance(a, b) of GLSL
distance(a, b) == VecLength(VecSub(a, b))

\* normalize(v) of GLSL on a vec2; the result for the zero vector is
\* undefined, ifZero is what the GPU returns for it
normalize2(v, ifZero) ==
  LET len == ISqrt(v[1] * v[1] + v[2] * v[2], Abs(v[1]) + Abs(v[2]))
  IN IF len = 0 THEN ifZero
     ELSE << (v[1] * Scale) \div len, (v[2] * Scale) \div len >>

ZeroNormalizeOutcomes == { << NaN, NaN >>, << 0, 0 >> }

\* the bending block of the vertex shader on one vertex: whether the branch
\* is taken and what is added to transformed.x and transformed.z
vertexShader(position, gPos, sPos, ifZero) ==
  LET isInsideSphere == distance(gPos, sPos) < bendRadius
      bendDir == normalize2(<< gPos[1] - sPos[1], gPos[3] - sPos[3] >>, ifZero)
      influence == Scale - (distance(gPos, sPos) * Scale) \div bendRadius
      heightFactor == position[2]
      bend == Mul(Mul(bendStrength, influence), heightFactor)
  IN [done |-> TRUE, isInsideSphere |-> isInsideSphere,
      heightFactor |-> heightFactor,
      bendDir |-> IF isInsideSphere THEN bendDir ELSE << 0, 0 >>,
      dx |-> IF isInsideSphere THEN Mul(bendDir[1], bend) ELSE 0,
      dz |-> IF isInsideSphere THEN Mul(bendDir[2], bend) ELSE 0]

\* instance translations and actor positions the shader is run on
InstanceOffsets ==
  { << x, y, z >> : x \in {110, 300, 600}, y \in {0, 400}, z \in {0, 200} }
ActorPositions == { << 0, 120, 0 >>, << 0, 500, 0 >>, << -100, 120, 200 >> }
ShaderInputs ==
  [position : PlaneGeometry(planeSize, planeSize), offset : InstanceOffsets,
   spherePos : ActorPositions]

NoShaderResult == [done |-> FALSE, isInsideSphere |-> FALSE, heightFactor |-> 0,
                   bendDir |-> << 0, 0 >>, dx |-> 0, dz |-> 0]

\* float radius = 18.0 of the earlier fragment shader
VISIBILITY_RADIUS == 1800

\* the camera-distance test of the earlier PlaneInstancerWithColor:
\* if (length(vPos.xz - cameraPos.xz) > radius) discard; the second test,
\* length(diff) < -radius, is never true
fragmentShaderEarlier(vPos, cameraPos) ==
  LET diff == << vPos[1] - cameraPos[1], vPos[3] - cameraPos[3] >>
      sq == diff[1] * diff[1] + diff[2] * diff[2]
  IN [done |-> TRUE,
      discarded |-> sq > VISIBILITY_RADIUS * VISIBILITY_RADIUS]

\* the map_fragment block of the current PlaneInstancerWithColor: it reads
\* vPos for the wave offset only and has no discard on the camera distance
fragmentShader(vPos, cameraPos) == [done |-> TRUE, discarded |-> FALSE]

\* fragments at, just inside, just outside and far outside 18.0 from a camera
FragmentInputs ==
  [vPos : { << 400, 0, 400 >>, << 2200, 50, 400 >>, << 2201, 50, 400 >>,
            << -1500, 900, -1400 >> },
   cameraPos : { << 400, 400, 400 >>, << 0, 240, -500 >> },
   renderer : {"current", "earlier"}]

NoFragmentResult == [done |-> FALSE, discarded |-> FALSE]

ShaderIdle ==
  /\ vsInput = [position |-> Zero3, offset |-> Zero3, spherePos |-> Zero3]
  /\ vsResult = NoShaderResult
  /\ fsInput = [vPos |-> Zero3, cameraPos |-> Zero3, renderer |-> "current"]
  /\ fsResult = NoFragmentResult

\* ------------------------------------------------- App: the swarm control
modes == << "normal", "swarm", "reverse" >>

\* Array.prototype.indexOf, zero-based, -1 when absent
indexOf(arr, v) ==
  IF \E i \in 1..Len(arr) : arr[i] = v
  THEN (CHOOSE i \in 1..Len(arr) : arr[i] = v /\ \A j \in 1..(i - 1) : arr[j] # v) - 1
  ELSE -1

\* the value cycleSwarmMode hands to setSwarmMode when it closed over captured
cycleSwarmMode(captured) ==
  LET currentIndex == indexOf(modes, captured)
      nextIndex == (currentIndex + 1) % Len(modes)
  IN modes[nextIndex + 1]

listenerKeptFromMount(registered, rendered) == registered

\* the keydown effect depends on cycleSwarmMode: a render that made a new
\* callback removes the registered listener and registers one over the new one
listenerAfterRender(registered, rendered) == rendered

DomEvents ==
  { [type |-> "click", code |-> "", repeat |-> FALSE] } \cup
  [type : {"keydown"}, code : {"Space", "KeyW"}, repeat : BOOLEAN]

NoEvent == [type |-> "", code |-> "", repeat |-> FALSE]

AppMounted ==
  /\ swarmMode = "normal" /\ renderedMode = "normal" /\ listenerMode = "normal"
  /\ events = 0 /\ activations = 0 /\ lastEvent = NoEvent

\* ------------------------------------------------------------ PortalPlane
\* a value of material.clippingPlanes: the property may be missing
Planes(kind, planes) == [kind |-> kind, planes |-> planes]
NullPlanes == Planes("null", << >>)
NoPlanesProperty == Planes("undefined", << >>)

Object3D(isPlane, visible, isInstancedMesh, frustumCulled, materials) ==
  [isPlane |-> isPlane, visible |-> visible, isInstancedMesh |-> isInstancedMesh,
   frustumCulled |-> frustumCulled, materials |-> materials]

\* the two meshes PortalPlane renders: the portal plane and its border
PortalMeshes(planeVisible, planeMat) ==
  << Object3D(TRUE, planeVisible, FALSE, TRUE, << planeMat >>),
     Object3D(FALSE, TRUE, FALSE, TRUE, << NullPlanes >>) >>

\* what else the scene holds, in traversal order
SceneObjects ==
  { << >>,
    << Object3D(FALSE, TRUE, FALSE, TRUE, << Planes("array", << >>) >>) >>,
    << Object3D(FALSE, TRUE, FALSE, TRUE, << NullPlanes >>) >>,
    << Object3D(FALSE, FALSE, FALSE, TRUE, << Planes("array", << >>) >>),
       Object3D(FALSE, TRUE, TRUE, TRUE, << Planes("array", << >>) >>) >>,
    << Object3D(FALSE, TRUE, FALSE, TRUE, << Planes("array", << "userPlane" >>) >>),
       Object3D(FALSE, FALSE, FALSE, TRUE, << >>) >>,
    << Object3D(FALSE, TRUE, FALSE, TRUE,
                << Planes("array", << >>), NoPlanesProperty >>) >> }

Renderers ==
  [renderTarget : {"null", "composerTarget"},
   clippingPlanes : { << >>, << "globalPlane" >> },
   localClippingEnabled : BOOLEAN,
   xrEnabled : BOOLEAN,
   shadowAutoUpdate : BOOLEAN,
   clearColor : {"000000"},
   clearAlpha : {0}] \cup
  [renderTarget : {"null"},
   clippingPlanes : { << >> },
   localClippingEnabled : {FALSE},
   xrEnabled : {FALSE},
   shadowAutoUpdate : {TRUE},
   clearColor : {"87ceeb"},
   clearAlpha : {1}]

PortalScenes ==
  { [background |-> bg, environment |-> env,
     children |-> PortalMeshes(pv, pm) \o objs] :
      bg \in {"null", "sky"}, env \in {"null", "envMap"}, pv \in BOOLEAN,
      pm \in {NullPlanes, Planes("array", << >>)}, objs \in SceneObjects }

\* the first traverse: what it does to one object
forPortalRender(child) ==
  [child EXCEPT
     !.visible = IF ~child.isPlane /\ child.visible = FALSE THEN TRUE ELSE @,
     !.frustumCulled = IF child.isInstancedMesh THEN FALSE ELSE @,
     !.materials = [i \in DOMAIN @ |->
                      IF @[i].kind # "undefined"
                      THEN Planes("array", << "clipPlane" >>) ELSE @[i]]]

\* the second traverse and the hiddenObjects loop: what they do to one object
\* that was 'found' before the first traverse and is 'child' after it
afterPortalRender(found, child) ==
  LET hidden == ~found.isPlane /\ found.visible = FALSE
      wasVisible == FALSE
  IN [child EXCEPT
        !.visible = IF hidden THEN wasVisible ELSE @,
        !.materials = [i \in DOMAIN @ |->
                         IF @[i].kind # "undefined"
                         THEN Planes("array", << >>) ELSE @[i]]]

\* the frame callback of PortalPlane from line 153 on: the renderer and the
\* scene gl.render sees, and the renderer and the scene the callback leaves
portalFrame(g, sc) ==
  LET originalClippingPlanes == g.clippingPlanes
      originalLocalClippingEnabled == g.localClippingEnabled
      originalVisible == sc.children[1].visible
      originalRenderTarget == g.renderTarget
      originalXrEnabled == g.xrEnabled
      originalShadowAutoUpdate == g.shadowAutoUpdate
      originalBackground == sc.background
      originalEnvironment == sc.environment
      planeHidden == [sc.children EXCEPT ![1].visible = FALSE]
      glRender == [g EXCEPT !.xrEnabled = FALSE, !.shadowAutoUpdate = FALSE,
                            !.renderTarget = "portalRenderTarget",
                            !.clearColor = "000000", !.clearAlpha = 0,
                            !.clippingPlanes = << "clipPlane" >>,
                            !.localClippingEnabled = TRUE]
      scRender == [sc EXCEPT !.background = "null",
                             !.children = [i \in DOMAIN planeHidden |->
                                             forPortalRender(planeHidden[i])]]
      restored == [i \in DOMAIN planeHidden |->
                     afterPortalRender(planeHidden[i], scRender.children[i])]
  IN [rendered |-> [gl |-> glRender, scene |-> scRender],
      left |-> [gl |-> [glRender EXCEPT
                          !.clippingPlanes = originalClippingPlanes,
                          !.localClippingEnabled = originalLocalClippingEnabled,
                          !.xrEnabled = originalXrEnabled,
                          !.shadowAutoUpdate = originalShadowAutoUpdate,
                          !.renderTarget = originalRenderTarget],
                scene |-> [scRender EXCEPT
                             !.children = [restored EXCEPT
                                             ![1].visible = originalVisible],
                             !.background = originalBackground,
                             !.environment = originalEnvironment]]]

PortalMounted(g, sc, ready) ==
  /\ gl = g /\ portalScene = sc /\ portalReady = ready /\ portalFrames = 0
  /\ portalBefore = [gl |-> g, scene |-> sc]
  /\ portalRendered = [gl |-> g, scene |-> sc]

PortalIdle ==
  PortalMounted([renderTarget |-> "null", clippingPlanes |-> << >>,
                 localClippingEnabled |-> FALSE, xrEnabled |-> FALSE,
                 shadowAutoUpdate |-> TRUE, clearColor |-> "000000",
                 clearAlpha |-> 0],
                [background |-> "null", environment |-> "null",
                 children |-> PortalMeshes(TRUE, NullPlanes)],
                FALSE)

\* ------------------------------------------------- fetchBinaryData alone
NoResult == [done |-> FALSE, transformArray |-> << >>, instColors |-> << >>,
             texIdxArr |-> << >>]

ComponentIdle ==
  /\ instanceCount = Undefined /\ alive = FALSE /\ loads = << >>
  /\ transforms = NullCell /\ instanceColorArray = NullCell
  /\ textureIndexArray = NullCell /\ queue = << >> /\ effectPending = FALSE
  /\ mesh = [count |-> 0, matrices |-> NullCell]
  /\ geomAttrs = [color |-> NullCell, aTextureIndex |-> NullCell]
  /\ uploaded = [runs |-> 0, transforms |-> NullCell, color |-> NullCell,
                 aTextureIndex |-> NullCell]
  /\ drawn = [any |-> FALSE, count |-> 0, pool |-> 0, published |-> FALSE,
              failed |-> FALSE]

InitLoader ==
  /\ ldInput \in LoaderInputs
  /\ ldInstanceCount \in Overrides
  /\ ldResult = NoResult
  /\ ComponentIdle
  /\ FrameIdle
  /\ ShaderIdle
  /\ AppMounted
  /\ PortalIdle

RunFetchBinaryData ==
  /\ ~ldResult.done
  /\ LET r == fetchBinaryData(ldInput, ldInstanceCount)
     IN ldResult' = [done |-> TRUE, transformArray |-> r.transformArray,
                     instColors |-> r.instColors, texIdxArr |-> r.texIdxArr]
  /\ UNCHANGED << ldInput, ldInstanceCount, componentVars, frameVars, shaderVars,
                  appVars, portalVars >>

NextLoader == RunFetchBinaryData

SpecLoader == InitLoader /\ [][NextLoader]_vars

\* ------------------------------------------- PlaneInstancerWithColor
\* safeCount = transforms ? transforms.length : (instanceCount || 0)
safeCount(t, ic) ==
  IF ~t.isNull THEN Len(t.data) ELSE IF Truthy(ic) THEN ic ELSE 0

NewLoad(ic) == [mounted |-> TRUE, instanceCount |-> ic, status |-> "pending"]

renderBatchUnbatched(q) == 1

\* The state updates one render processes: setTransforms, setInstanceColorArray
\* and setTextureIndexArray are called in one promise callback and are
\* rendered together.
renderBatch(q) == Len(q)

\* the value of a state cell after the updates of q are applied to cur
Applied(q, name, cur) ==
  LET idx == {i \in 1..Len(q) : q[i].cell = name}
  IN IF idx = {} THEN cur
     ELSE q[CHOOSE i \in idx : \A j \in idx : j <= i].value

\* the instancedMesh element: a changed count argument builds a new mesh
MeshFor(t, ic) ==
  IF safeCount(t, ic) = mesh.count THEN mesh
  ELSE [count |-> safeCount(t, ic), matrices |-> NullCell]

LoaderIdle ==
  /\ ldInput = [positions |-> << >>, rotations |-> << >>, scales |-> << >>,
                colors |-> << >>, seed |-> 0]
  /\ ldInstanceCount = Undefined
  /\ ldResult = NoResult

\* the component after its first render: the load effect has started a load
ComponentMounted(ic) ==
  /\ instanceCount = ic
  /\ alive = TRUE
  /\ loads = << NewLoad(ic) >>
  /\ transforms = NullCell /\ instanceColorArray = NullCell
  /\ textureIndexArray = NullCell
  /\ queue = << >> /\ effectPending = FALSE
  /\ mesh = [count |-> safeCount(NullCell, ic), matrices |-> NullCell]
  /\ geomAttrs = [color |-> NullCell, aTextureIndex |-> NullCell]
  /\ uploaded = [runs |-> 0, transforms |-> NullCell, color |-> NullCell,
                 aTextureIndex |-> NullCell]
  /\ drawn = [any |-> FALSE, count |-> 0, pool |-> 0, published |-> FALSE,
              failed |-> FALSE]

InitComponent ==
  /\ LoaderIdle
  /\ \E ic \in ComponentOverrides : ComponentMounted(ic)
  /\ FrameIdle
  /\ ShaderIdle
  /\ AppMounted
  /\ PortalIdle

LoadThenUnguarded(k) ==
  /\ k \in 1..Len(loads) /\ loads[k].status = "pending"
  /\ \E in \in ComponentInputs :
       LET r == fetchBinaryData(in, loads[k].instanceCount)
       IN queue' = queue \o << [cell |-> "transforms",
                                 value |-> Cell(k, r.transformArray)],
                                [cell |-> "instanceColorArray",
                                 value |-> Cell(k, r.instColors)],
                                [cell |-> "textureIndexArray",
                                 value |-> Cell(k, r.texIdxArr)] >>
  /\ loads' = [loads EXCEPT ![k].status = "resolved"]
  /\ UNCHANGED << portalVars, appVars, shaderVars, loaderVars, frameVars, instanceCount, alive, transforms,
                  instanceColorArray, textureIndexArray, effectPending, mesh,
                  geomAttrs, uploaded, drawn >>

\* fetchBinaryData().then(...): the four fetches of load k resolved and parsed
LoadThen(k) ==
  /\ k \in 1..Len(loads) /\ loads[k].status = "pending"
  /\ \E in \in ComponentInputs :
       LET r == fetchBinaryData(in, loads[k].instanceCount)
       IN queue' = IF ~loads[k].mounted THEN queue
                   ELSE queue \o << [cell |-> "transforms",
                                     value |-> Cell(k, r.transformArray)],
                                    [cell |-> "instanceColorArray",
                                     value |-> Cell(k, r.instColors)],
                                    [cell |-> "textureIndexArray",
                                     value |-> Cell(k, r.texIdxArr)] >>
  /\ loads' = [loads EXCEPT ![k].status = "resolved"]
  /\ UNCHANGED << portalVars, appVars, shaderVars, loaderVars, frameVars, instanceCount, alive, transforms, instanceColorArray,
                  textureIndexArray, effectPending, mesh, geomAttrs, uploaded,
                  drawn >>

\* .catch(console.error): a fetch or the parsing of load k failed
LoadCatch(k) ==
  /\ k \in 1..Len(loads) /\ loads[k].status = "pending"
  /\ loads' = [loads EXCEPT ![k].status = "rejected"]
  /\ UNCHANGED << portalVars, appVars, shaderVars, loaderVars, frameVars, instanceCount, alive, transforms, instanceColorArray,
                  textureIndexArray, queue, effectPending, mesh, geomAttrs,
                  uploaded, drawn >>

\* a render caused by enqueued state updates, and its commit
Commit ==
  /\ alive /\ queue # << >> /\ ~effectPending
  /\ LET n == renderBatch(queue)
         q == SubSeq(queue, 1, n)
         t == Applied(q, "transforms", transforms)
     IN /\ transforms' = t
        /\ instanceColorArray' = Applied(q, "instanceColorArray", instanceColorArray)
        /\ textureIndexArray' = Applied(q, "textureIndexArray", textureIndexArray)
        /\ queue' = SubSeq(queue, n + 1, Len(queue))
        /\ mesh' = MeshFor(t, instanceCount)
  /\ effectPending' = TRUE
  /\ UNCHANGED << portalVars, appVars, shaderVars, loaderVars, frameVars, instanceCount, alive, loads, geomAttrs, uploaded,
                  drawn >>

\* the effect on [transforms, instanceColorArray, textureIndexArray]
UploadEffect ==
  /\ alive /\ effectPending
  /\ effectPending' = FALSE
  /\ IF transforms.isNull \/ instanceColorArray.isNull \/ textureIndexArray.isNull
     THEN UNCHANGED << mesh, geomAttrs, uploaded >>
     ELSE /\ mesh' = [mesh EXCEPT !.matrices = transforms]
          /\ geomAttrs' = [color |-> instanceColorArray,
                           aTextureIndex |-> textureIndexArray]
          /\ uploaded' = [runs |-> uploaded.runs + 1, transforms |-> transforms,
                          color |-> instanceColorArray,
                          aTextureIndex |-> textureIndexArray]
  /\ UNCHANGED << portalVars, appVars, shaderVars, loaderVars, frameVars, instanceCount, alive, loads, transforms,
                  instanceColorArray, textureIndexArray, queue, drawn >>

\* a render with changed props (buffer URLs or instanceCount): the load
\* effect is cleaned up and run again
ChangeProps(ic) ==
  /\ alive /\ ~effectPending /\ Len(loads) < MaxLoads
  /\ LET n == IF queue = << >> THEN 0 ELSE renderBatch(queue)
         q == SubSeq(queue, 1, n)
         t == Applied(q, "transforms", transforms)
     IN /\ transforms' = t
        /\ instanceColorArray' = Applied(q, "instanceColorArray", instanceColorArray)
        /\ textureIndexArray' = Applied(q, "textureIndexArray", textureIndexArray)
        /\ queue' = SubSeq(queue, n + 1, Len(queue))
        /\ mesh' = MeshFor(t, ic)
        /\ effectPending' = (n > 0)
  /\ instanceCount' = ic
  /\ loads' = Append([loads EXCEPT ![Len(loads)].mounted = FALSE], NewLoad(ic))
  /\ UNCHANGED << portalVars, appVars, shaderVars, loaderVars, frameVars, alive, geomAttrs, uploaded, drawn >>

\* the component is unmounted: the load effect is cleaned up
Unmount ==
  /\ alive
  /\ alive' = FALSE
  /\ loads' = [loads EXCEPT ![Len(loads)].mounted = FALSE]
  /\ queue' = << >>
  /\ effectPending' = FALSE
  /\ UNCHANGED << portalVars, appVars, shaderVars, loaderVars, frameVars, instanceCount, transforms, instanceColorArray,
                  textureIndexArray, mesh, geomAttrs, uploaded, drawn >>

\* one frame draws the instancedMesh with its count
DrawMesh ==
  /\ alive
  /\ drawn' = [any |-> TRUE, count |-> mesh.count,
               pool |-> IF transforms.isNull THEN 0 ELSE Len(transforms.data),
               published |-> ~transforms.isNull,
               failed |-> loads[Len(loads)].status = "rejected"]
  /\ UNCHANGED << portalVars, appVars, shaderVars, loaderVars, frameVars, instanceCount, alive, loads, transforms,
                  instanceColorArray, textureIndexArray, queue, effectPending,
                  mesh, geomAttrs, uploaded >>

Next ==
  \/ \E k \in 1..MaxLoads : LoadThen(k)
  \/ \E k \in 1..MaxLoads : LoadCatch(k)
  \/ Commit
  \/ UploadEffect
  \/ \E ic \in ComponentOverrides : ChangeProps(ic)
  \/ Unmount
  \/ DrawMesh

Spec == InitComponent /\ [][Next]_vars

\* ------------------------------------------------------ the render loop
PointerMoveNotifying(ev) ==
  /\ pc = "actor" /\ pointerCount < MaxPointer
  /\ pointerCount' = pointerCount + 1
  /\ IF Len(ev) = 0
     THEN UNCHANGED << sphereTarget, cameraOffset, spherePosRef, appSpherePosition,
                       notified >>
     ELSE LET hitPoint == ev[1]
              dir == Normalize(VecSub(cameraPosition, hitPoint))
              target == << hitPoint[1], hitPoint[2] + SPHERE_HEIGHT_OFFSET,
                           hitPoint[3] >>
          IN /\ sphereTarget' = target
             /\ cameraOffset' = << Mul(dir[1], CAMERA_DISTANCE), Mul(0, CAMERA_DISTANCE),
                                   Mul(dir[3], CAMERA_DISTANCE) >>
             /\ spherePosRef' = handleSphereMove(target)
             /\ appSpherePosition' = [isNull |-> FALSE, value |-> target]
             /\ notified' = Append(notified, target)
  /\ UNCHANGED << portalVars, appVars, shaderVars, loaderVars, componentVars, pc, tick, elapsed, scene, isInitialized,
                  baseMesh, spherePosition, cameraPosition, cameraLookAt,
                  currentPosition, shader, frameCounter, lastUpdate, writes, drawnU >>

\* handlePointerMove(event), delivered between two frames
PointerMove(ev) ==
  /\ pc = "actor" /\ pointerCount < MaxPointer
  /\ pointerCount' = pointerCount + 1
  /\ IF Len(ev) = 0
     THEN UNCHANGED << sphereTarget, cameraOffset >>
     ELSE LET hitPoint == ev[1]
              dir == Normalize(VecSub(cameraPosition, hitPoint))
          IN /\ sphereTarget' = << hitPoint[1], hitPoint[2] + SPHERE_HEIGHT_OFFSET,
                                   hitPoint[3] >>
             /\ cameraOffset' = << Mul(dir[1], CAMERA_DISTANCE), Mul(0, CAMERA_DISTANCE),
                                   Mul(dir[3], CAMERA_DISTANCE) >>
  /\ UNCHANGED << portalVars, appVars, shaderVars, loaderVars, componentVars, pc, tick, elapsed, scene, isInitialized,
                  baseMesh, spherePosition, cameraPosition, cameraLookAt,
                  currentPosition, spherePosRef, appSpherePosition, shader,
                  frameCounter, lastUpdate, writes, drawnU, notified >>

\* initializePositions(), on the first frame
ActorInitialize ==
  /\ spherePosition' = sphereTarget
  /\ cameraPosition' = << sphereTarget[1] + cameraOffset[1],
                          sphereTarget[2] + cameraOffset[2] + CAMERA_HEIGHT_OFFSET,
                          sphereTarget[3] + cameraOffset[3] >>
  /\ isInitialized' = TRUE
  /\ lastUpdate' = NoUpdate
  /\ UNCHANGED << baseMesh, cameraLookAt, currentPosition, spherePosRef,
                  appSpherePosition, notified >>

\* the body of MovingSphere's frame callback once initialized
ActorUpdate(outcome) ==
  LET found == IF baseMesh = 0 THEN traverse(scene, 1, 0) ELSE baseMesh
      nextX == lerp(spherePosition[1], sphereTarget[1], SPHERE_MOVE_SPEED)
      nextZ == lerp(spherePosition[3], sphereTarget[3], SPHERE_MOVE_SPEED)
      nextY == nextYHeight(found # 0, outcome, spherePosition[2], sphereTarget[2])
      pos == << nextX, nextY, nextZ >>
      camTarget == << nextX + cameraOffset[1], nextY + CAMERA_HEIGHT_OFFSET,
                      nextZ + cameraOffset[3] >>
  IN /\ found = 0 => outcome = RayMiss
     /\ baseMesh' = found
     /\ spherePosition' = pos
     /\ currentPosition' = pos
     \* onSphereMove: handleSphereMove copies it and hands it to App
     /\ spherePosRef' = handleSphereMove(publishedPosition(pos))
     /\ appSpherePosition' = [isNull |-> FALSE, value |-> publishedPosition(pos)]
     /\ notified' = Append(notified, publishedPosition(pos))
     /\ cameraPosition' = VecLerp(cameraPosition, camTarget, CAMERA_FOLLOW_SPEED)
     /\ cameraLookAt' = << nextX, nextY + LOOK_AT_BIAS, nextZ >>
     /\ lastUpdate' = [ran |-> TRUE, hasBaseMesh |-> found # 0, outcome |-> outcome,
                       prevY |-> spherePosition[2], targetY |-> sphereTarget[2],
                       prevX |-> spherePosition[1], targetX |-> sphereTarget[1],
                       prevZ |-> spherePosition[3], targetZ |-> sphereTarget[3]]
     /\ UNCHANGED isInitialized

ActorFrameRecomputingOffset ==
  /\ pc = "actor" /\ tick < MaxTicks
  /\ pc' = "uniforms"
  /\ IF ~isInitialized THEN ActorInitialize
     ELSE \E outcome \in RayOutcomes : ActorUpdate(outcome)
  /\ LET dir == Normalize(VecSub(cameraPosition, spherePosition))
     IN cameraOffset' = << Mul(dir[1], CAMERA_DISTANCE), 0,
                           Mul(dir[3], CAMERA_DISTANCE) >>
  /\ UNCHANGED << portalVars, appVars, shaderVars, loaderVars, componentVars, tick, elapsed, scene,
                  sphereTarget, shader, frameCounter, pointerCount, writes, drawnU >>

\* MovingSphere's useFrame callback: the first subscriber of the frame
ActorFrame ==
  /\ pc = "actor" /\ tick < MaxTicks
  /\ pc' = "uniforms"
  /\ IF ~isInitialized THEN ActorInitialize
     ELSE \E outcome \in RayOutcomes : ActorUpdate(outcome)
  /\ UNCHANGED << portalVars, appVars, shaderVars, loaderVars, componentVars, tick, elapsed, scene, sphereTarget,
                  cameraOffset, shader, frameCounter, pointerCount, writes, drawnU >>

\* PlaneInstancerWithColor's useFrame callback: the second subscriber
UniformFrame ==
  /\ pc = "uniforms"
  /\ pc' = "draw"
  /\ IF ~shader.exists
     THEN /\ writes' = NoWrites
          /\ UNCHANGED << shader, frameCounter >>
     ELSE /\ frameCounter' = frameCounter + 1
          /\ shader' = [exists |-> TRUE,
                        time |-> IF timeWriteDue(frameCounter + 1)
                                 THEN Mul(elapsed, TIME_FACTOR) ELSE shader.time,
                        cameraPos |-> cameraPosition,
                        spherePos |-> spherePosRef]
          /\ writes' = [ran |-> TRUE,
                        time |-> IF timeWriteDue(frameCounter + 1) THEN 1 ELSE 0,
                        cameraPos |-> 1, spherePos |-> 1]
  /\ UNCHANGED << portalVars, appVars, shaderVars, loaderVars, componentVars, tick, elapsed, scene, isInitialized,
                  baseMesh, spherePosition, sphereTarget, cameraOffset,
                  cameraPosition, cameraLookAt, currentPosition, spherePosRef,
                  appSpherePosition, pointerCount, lastUpdate, drawnU, notified >>

\* the draw that ends the frame; the first draw compiles the material, which
\* creates the uniforms with their initial values
Draw ==
  /\ pc = "draw"
  /\ pc' = "actor"
  /\ shader' = [shader EXCEPT !.exists = TRUE]
  /\ drawnU' = [any |-> TRUE, time |-> shader.time, cameraPos |-> shader.cameraPos,
                spherePos |-> shader.spherePos]
  /\ tick' = tick + 1
  /\ elapsed' = elapsed + FrameDt
  /\ lastUpdate' = NoUpdate
  /\ writes' = NoWrites
  /\ notified' = << >>
  /\ UNCHANGED << portalVars, appVars, shaderVars, loaderVars, componentVars, scene, isInitialized, baseMesh,
                  spherePosition, sphereTarget, cameraOffset, cameraPosition,
                  cameraLookAt, currentPosition, spherePosRef, appSpherePosition,
                  frameCounter, pointerCount >>

InitFrame ==
  /\ LoaderIdle
  /\ ComponentMounted(Undefined)
  /\ \E sc \in Scenes : FrameStart(sc)
  /\ ShaderIdle
  /\ AppMounted
  /\ PortalIdle

NextFrame ==
  \/ \E ev \in PointerEvents : PointerMove(ev)
  \/ ActorFrame
  \/ UniformFrame
  \/ Draw

SpecFrame == InitFrame /\ [][NextFrame]_vars

\* ----------------------------------------------- the vertex shader alone
InitShader ==
  /\ LoaderIdle
  /\ ComponentIdle
  /\ FrameIdle
  /\ vsInput \in ShaderInputs
  /\ vsResult = NoShaderResult
  /\ fsInput \in FragmentInputs
  /\ fsResult = NoFragmentResult
  /\ AppMounted
  /\ PortalIdle

\* one invocation of the vertex shader
RunVertexShader ==
  /\ ~vsResult.done
  /\ \E ifZero \in ZeroNormalizeOutcomes :
       vsResult' = vertexShader(vsInput.position,
                                worldPosition(vsInput.position, vsInput.offset),
                                vsInput.spherePos, ifZero)
  /\ UNCHANGED << vsInput, fsInput, fsResult, loaderVars, componentVars, frameVars,
                  appVars, portalVars >>

\* one invocation of the fragment shader of the mounted renderer
RunFragmentShader ==
  /\ ~fsResult.done
  /\ fsResult' = IF fsInput.renderer = "earlier"
                 THEN fragmentShaderEarlier(fsInput.vPos, fsInput.cameraPos)
                 ELSE fragmentShader(fsInput.vPos, fsInput.cameraPos)
  /\ UNCHANGED << vsInput, vsResult, fsInput, loaderVars, componentVars, frameVars,
                  appVars, portalVars >>

NextShader ==
  \/ RunVertexShader
  \/ RunFragmentShader

SpecShader == InitShader /\ [][NextShader]_vars

\* ------------------------------------------------ the swarm control alone
InitSwarm ==
  /\ LoaderIdle
  /\ ComponentIdle
  /\ FrameIdle
  /\ ShaderIdle
  /\ AppMounted
  /\ PortalIdle

\* setSwarmMode(next) from a discrete event, and the render and effects React
\* flushes before the next event is dispatched
SetSwarmMode(next) ==
  /\ swarmMode' = next
  /\ renderedMode' = next
  /\ listenerMode' = IF next = swarmMode THEN listenerMode
                     ELSE listenerAfterRender(listenerMode, next)
  /\ activations' = activations + 1

\* SwarmControl's button: handleClick calls onModeChange, the cycleSwarmMode
\* of the last render
ButtonClick ==
  /\ events < MaxEvents
  /\ events' = events + 1
  /\ lastEvent' = [type |-> "click", code |-> "", repeat |-> FALSE]
  /\ SetSwarmMode(cycleSwarmMode(renderedMode))
  /\ UNCHANGED << loaderVars, componentVars, frameVars, shaderVars, portalVars >>

\* handleKeyPress, the registered window keydown listener
KeyDown(event) ==
  /\ events < MaxEvents
  /\ event.type = "keydown"
  /\ events' = events + 1
  /\ lastEvent' = event
  /\ IF event.code = "Space" /\ ~event.repeat
     THEN SetSwarmMode(cycleSwarmMode(listenerMode))
     ELSE UNCHANGED << swarmMode, renderedMode, listenerMode, activations >>
  /\ UNCHANGED << loaderVars, componentVars, frameVars, shaderVars, portalVars >>

NextSwarm ==
  \/ ButtonClick
  \/ \E event \in DomEvents : KeyDown(event)

SpecSwarm == InitSwarm /\ [][NextSwarm]_vars

\* ---------------------------------------------------- PortalPlane alone
InitPortal ==
  /\ LoaderIdle
  /\ ComponentIdle
  /\ FrameIdle
  /\ ShaderIdle
  /\ AppMounted
  /\ \E g \in Renderers, sc \in PortalScenes, ready \in BOOLEAN :
       PortalMounted(g, sc, ready)

\* the layout effect and the ref callbacks have set the three refs
PortalRefsSet ==
  /\ ~portalReady
  /\ portalReady' = TRUE
  /\ UNCHANGED << gl, portalScene, portalFrames, portalBefore, portalRendered,
                  loaderVars, componentVars, frameVars, shaderVars, appVars >>

\* one call of PortalPlane's useFrame callback
PortalFrame ==
  /\ portalFrames < MaxPortalFrames
  /\ portalFrames' = portalFrames + 1
  /\ portalBefore' = [gl |-> gl, scene |-> portalScene]
  /\ IF ~portalReady
     THEN UNCHANGED << gl, portalScene, portalRendered >>
     ELSE LET r == portalFrame(gl, portalScene)
          IN /\ portalRendered' = r.rendered
             /\ gl' = r.left.gl
             /\ portalScene' = r.left.scene
  /\ UNCHANGED << portalReady, loaderVars, componentVars, frameVars, shaderVars,
                  appVars >>

NextPortal ==
  \/ PortalRefsSet
  \/ PortalFrame

SpecPortal == InitPortal /\ [][NextPortal]_vars

\* ---------------------------------------------------- claims on the loader
sourceCount == inferredCountOf(ldInput.positions)
effectiveCount == Len(ldResult.transformArray)

\* C1: for every source length, budget and override (absent, zero or
\* positive), the effective instance count is
\* min(override ?? budget, sourceCount, budget).
C1_EffectiveCountIsMin ==
  ldResult.done =>
    effectiveCount =
      Min(Min(Nullish(ldInstanceCount, REDUCED_INSTANCE_COUNT), sourceCount),
          REDUCED_INSTANCE_COUNT)

\* C2: whenever sourceCount > effectiveCount, output index i reads its data
\* from source index floor(i / effectiveCount * sourceCount), not from i.
C2_SubsampledWheneverReduced ==
  (ldResult.done /\ sourceCount > effectiveCount) =>
    \A i \in 0..(effectiveCount - 1) :
      ldResult.transformArray[i + 1].position =
        positionOf(ldInput.positions, 3 * ((i * sourceCount) \div effectiveCount))

\* C6: for any buffer lengths every component of every produced record is a
\* defined number (missing components take their neutral value).
C6_EveryComponentDefined ==
  ldResult.done =>
    /\ \A i \in 1..effectiveCount : \A c \in 1..3 :
         /\ IsNum(ldResult.transformArray[i].position[c])
         /\ IsNum(ldResult.transformArray[i].rotation[c])
         /\ IsNum(ldResult.transformArray[i].scale[c])
    /\ \A m \in 1..Len(ldResult.instColors) : IsNum(ldResult.instColors[m])
    /\ \A n \in 1..Len(ldResult.texIdxArr) : IsNum(ldResult.texIdxArr[n])

\* ------------------------------------------------ claims on the component
\* C3: if a fetch or its parsing fails, the pool stays empty and the instance
\* count submitted for drawing is 0, for every configuration, including an
\* instanceCount override.
C3_FailedLoadDrawsNothing ==
  (drawn.any /\ drawn.failed /\ ~drawn.published) => drawn.count = 0

\* C4: the three arrays an upload effect uploads come from the same completed
\* load and have matching lengths; a mix of two loads or a partial set is
\* never uploaded.
C4_UploadIsOneLoad ==
  uploaded.runs > 0 =>
    /\ ~uploaded.transforms.isNull /\ ~uploaded.color.isNull
    /\ ~uploaded.aTextureIndex.isNull
    /\ uploaded.color.load = uploaded.transforms.load
    /\ uploaded.aTextureIndex.load = uploaded.transforms.load
    /\ loads[uploaded.transforms.load].status = "resolved"
    /\ Len(uploaded.color.data) = 3 * Len(uploaded.transforms.data)
    /\ Len(uploaded.aTextureIndex.data) = Len(uploaded.transforms.data)

\* a reload was uploaded over the arrays of a first load of another length
C4_Witness ==
  /\ uploaded.runs = 2 /\ uploaded.transforms.load = 2
  /\ Len(uploaded.transforms.data) > 0
  /\ mesh.matrices = transforms /\ geomAttrs.color.load = 2

\* C5: the instance count given to the draw equals the length of the
\* published pool, and is 0 when no pool has been published.
C5_DrawCountIsPoolLength ==
  drawn.any => drawn.count = drawn.pool

\* ---------------------------------------------- claims on the render loop
\* C7: in every tick after initialization the order is actor update, uniform
\* write, draw: the actor-position uniform the draw uses is the position the
\* actor committed in that same tick.
C7_DrawUsesThisTicksPosition ==
  (pc = "draw" /\ lastUpdate.ran) =>
    /\ shader.exists
    /\ writes.ran /\ writes.spherePos = 1
    /\ shader.spherePos = spherePosition

\* a draw is due in a tick whose update moved the actor away from the
\* position the previous draw used
C7_Witness ==
  /\ pc = "draw" /\ lastUpdate.ran /\ drawnU.any
  /\ drawnU.spherePos # spherePosition
  /\ shader.spherePos = spherePosition

\* C8 as stated: on every frame once the shader exists each of the three
\* uniforms is written once, so the time uniform of a draw is derived from
\* that frame's elapsed time.
C8_TimeWrittenEveryFrame ==
  (pc = "draw" /\ writes.ran) =>
    /\ writes.time = 1 /\ writes.cameraPos = 1 /\ writes.spherePos = 1
    /\ shader.time = Mul(elapsed, TIME_FACTOR)

\* C8 as amended: on every frame once the shader exists the camera-position
\* and actor-position uniforms are written once before the draw; the time
\* uniform is written on every second counted frame only, and on the other
\* frames the draw uses the time the previous draw used.
C8_UniformsPerFrame ==
  (pc = "draw" /\ writes.ran) =>
    /\ writes.cameraPos = 1 /\ shader.cameraPos = cameraPosition
    /\ writes.spherePos = 1 /\ shader.spherePos = spherePosRef
    /\ IF frameCounter % 2 = 0
       THEN writes.time = 1 /\ shader.time = (elapsed * 250) \div 100
       ELSE writes.time = 0 /\ shader.time = drawnU.time

\* a draw is due on a frame that left a stale, nonzero time in the uniform
C8_Witness ==
  /\ pc = "draw" /\ writes.ran /\ frameCounter % 2 = 1
  /\ shader.time # 0 /\ shader.time # Mul(elapsed, TIME_FACTOR)

\* C9: in every tick in which the terrain ray hits, the committed position.y
\* is the hit height plus the clearance, whatever the previous y and targetY.
C9_HitClampsToGround ==
  (lastUpdate.ran /\ lastUpdate.hasBaseMesh /\ lastUpdate.outcome # RayMiss) =>
    /\ spherePosition[2] = lastUpdate.outcome + 120
    /\ spherePosRef[2] = lastUpdate.outcome + 120

\* a hit at a height that neither the previous y nor the targetY hint gives
C9_Witness ==
  /\ lastUpdate.ran /\ lastUpdate.hasBaseMesh /\ lastUpdate.outcome # RayMiss
  /\ lastUpdate.prevY # lastUpdate.outcome + 120
  /\ lastUpdate.targetY # lastUpdate.outcome + 120
  /\ lastUpdate.targetY # lastUpdate.prevY
  /\ spherePosition[2] = lastUpdate.outcome + 120

\* C10: in every tick in which the ray misses, and identically when no terrain
\* is registered, the committed position.y is
\* lerp(previous y, targetY, moveSpeed), a defined number.
C10_MissFallsBackToLerp ==
  (lastUpdate.ran /\ (~lastUpdate.hasBaseMesh \/ lastUpdate.outcome = RayMiss)) =>
    /\ spherePosition[2] = (99 * lastUpdate.prevY + lastUpdate.targetY) \div 100
    /\ IsNum(spherePosition[2])

\* an update without a registered terrain moved y toward a different targetY
C10_Witness ==
  /\ lastUpdate.ran /\ ~lastUpdate.hasBaseMesh
  /\ lastUpdate.targetY # lastUpdate.prevY
  /\ spherePosition[2] # lastUpdate.prevY
  /\ spherePosition[2] # SPHERE_HEIGHT_OFFSET

\* C11: handling an interaction input changes only the target (x, z and the
\* y hint) and the camera offset: the committed position stays as it was and
\* no position is published; the published position changes only in the
\* per-frame update of an initialized actor.
C11_PointerMovePublishesNothing ==
  [][ /\ pointerCount' # pointerCount =>
           UNCHANGED << spherePosition, currentPosition, spherePosRef,
                        appSpherePosition, notified, cameraPosition, cameraLookAt,
                        isInitialized, baseMesh, shader, pc, tick >>
      /\ (spherePosRef' # spherePosRef \/ appSpherePosition' # appSpherePosition
            \/ Len(notified') > Len(notified)) =>
           (isInitialized /\ pc = "actor" /\ pc' = "uniforms"
              /\ pointerCount' = pointerCount) ]_vars

\* an input after the snap moved the target and the camera offset while the
\* committed position is still the snapped one and nothing has been published
C11_Witness ==
  /\ isInitialized /\ pointerCount > 0
  /\ spherePosition = DefaultTarget /\ sphereTarget # DefaultTarget
  /\ cameraOffset # << -CAMERA_DISTANCE, 0, 0 >>
  /\ appSpherePosition.isNull /\ notified = << >>

\* C12: in every tick after the initialization tick the actor position is
\* committed and published exactly once, and the published x, y and z are all
\* the ones resolved in that tick; in the initialization tick nothing is
\* published; every consumer holds the one committed position.
C12_PublishedOncePerTick ==
  pc # "actor" =>
    /\ lastUpdate.ran <=> tick >= 1
    /\ IF lastUpdate.ran
       THEN /\ spherePosition =
                 << (99 * lastUpdate.prevX + lastUpdate.targetX) \div 100,
                    IF lastUpdate.hasBaseMesh /\ lastUpdate.outcome # RayMiss
                    THEN lastUpdate.outcome + 120
                    ELSE (99 * lastUpdate.prevY + lastUpdate.targetY) \div 100,
                    (99 * lastUpdate.prevZ + lastUpdate.targetZ) \div 100 >>
            /\ notified = << spherePosition >>
            /\ spherePosRef = spherePosition
            /\ ~appSpherePosition.isNull /\ appSpherePosition.value = spherePosition
            /\ currentPosition = spherePosition
       ELSE /\ notified = << >>
            /\ appSpherePosition.isNull /\ spherePosRef = DefaultTarget

\* an update that changed all three coordinates and published them once
C12_Witness ==
  /\ pc = "draw" /\ lastUpdate.ran /\ tick >= 2
  /\ spherePosition[1] # lastUpdate.prevX
  /\ spherePosition[2] # lastUpdate.prevY
  /\ spherePosition[3] # lastUpdate.prevZ
  /\ notified = << spherePosition >>

\* C13: the first frame snaps the actor to the default target
\* (0, clearance, 0) and places the camera at the default target plus the
\* default offset plus the height offset, also when an interaction input was
\* delivered before that frame; the snap happens once, in the first frame,
\* and no per-frame update runs before it.
C13_SnapToDefaultTarget ==
  /\ (pc = "uniforms" /\ tick = 0) =>
       /\ isInitialized /\ ~lastUpdate.ran
       /\ spherePosition = << 0, 120, 0 >>
       /\ cameraPosition = << 0 - 500, 120 + 0 + 120, 0 + 0 >>
  /\ isInitialized <=> (tick >= 1 \/ pc # "actor")
  /\ lastUpdate.ran => tick >= 1

\* C14: at most one terrain surface is ever registered: once baseMesh is set
\* it never changes, and what is registered is never the ground-cover mesh,
\* the actor's mesh or an effect surface, for every scene and traversal order.
C14_OnlyTerrainRegistered ==
  [][ /\ baseMesh # 0 => baseMesh' = baseMesh
      /\ baseMesh' # 0 =>
           scene[baseMesh'].kind \notin {"groundcover", "actor", "effect"} ]_vars

\* ------------------------------------------- claims on the vertex shader
\* C15: a vertex is bent if and only if the horizontal (XZ) distance between
\* its world position and the actor is below bendRadius, whatever their
\* vertical separation; at an XZ distance of bendRadius or more the
\* displacement is exactly 0.
C15_BentIffWithinXZRadius ==
  vsResult.done =>
    LET gPos == [c \in 1..3 |-> vsInput.offset[c] + vsInput.position[c]]
        ex == gPos[1] - vsInput.spherePos[1]
        ez == gPos[3] - vsInput.spherePos[3]
        withinXZ == ex * ex + ez * ez < 370 * 370
    IN /\ vsResult.isInsideSphere <=> withinXZ
       /\ ~withinXZ => (vsResult.dx = 0 /\ vsResult.dz = 0)

\* C16: on the quad the renderer uses, heightWeight is 0 at the root vertices
\* (the lower edge) and 1 at the tip vertices (the upper edge), so a root
\* vertex is never displaced by bending, at any actor distance.
C16_RootVerticesNeverDisplaced ==
  vsResult.done =>
    LET isRoot == \A v \in PlaneGeometry(planeSize, planeSize) :
                    vsInput.position[2] <= v[2]
    IN /\ vsResult.heightFactor = (IF isRoot THEN 0 ELSE 100)
       /\ isRoot => (vsResult.dx = 0 /\ vsResult.dz = 0)

C18_FrameKeepsTargetAndOffset ==
  [][ /\ (pc' # pc \/ tick' # tick) => UNCHANGED << cameraOffset, sphereTarget >>
      /\ (cameraOffset' # cameraOffset \/ sphereTarget' # sphereTarget) =>
           (pointerCount' = pointerCount + 1 /\ pc' = pc /\ tick' = tick) ]_vars

\* an update ran, and moved the actor and the camera, with an offset and a
\* target that an earlier input had set
C18_Witness ==
  /\ pc = "draw" /\ lastUpdate.ran /\ pointerCount > 0
  /\ cameraOffset # << -CAMERA_DISTANCE, 0, 0 >>
  /\ sphereTarget # DefaultTarget
  /\ spherePosition # sphereTarget
  /\ spherePosition[1] # lastUpdate.prevX

\* C19: after any interaction input cameraOffset lies in the horizontal plane
\* (y = 0) and its length is followDistance (5.0, here within 0.1 for the
\* rounding of the fixed-point arithmetic), wherever the camera is relative
\* to the hit point.
C19_OffsetHasFollowDistance ==
  LET sq == cameraOffset[1] * cameraOffset[1] + cameraOffset[3] * cameraOffset[3]
  IN /\ cameraOffset[2] = 0
     /\ 490 * 490 <= sq /\ sq <= 510 * 510

\* ------------------------------------------------ claims on the sampling
\* C20: whenever sourceCount > effectiveCount >= 1, the source indices read
\* for the outputs 0 .. effectiveCount-1 are non-decreasing, start at 0 and
\* end at most at sourceCount - 1: no position is read past the end.
C20_SourceIndicesInRange ==
  (ldResult.done /\ sourceCount > effectiveCount /\ effectiveCount >= 1) =>
    LET read(i) == ldResult.transformArray[i + 1].position[1]
        index(i) == (read(i) - ldInput.positions[1]) \div 3
    IN /\ \A i \in 0..(effectiveCount - 1) :
            /\ read(i) >= ldInput.positions[1]
            /\ read(i) = ldInput.positions[3 * index(i) + 1]
       /\ index(0) = 0
       /\ \A i \in 0..(effectiveCount - 2) : index(i) <= index(i + 1)
       /\ index(effectiveCount - 1) <= sourceCount - 1

\* a sampled load whose last output reads a source index beyond the outputs
C20_Witness ==
  /\ ldResult.done /\ sourceCount > effectiveCount /\ effectiveCount >= 2
  /\ ldResult.transformArray[effectiveCount].position[1]
       > ldInput.positions[3 * (effectiveCount - 1) + 1]
  /\ ldResult.transformArray[effectiveCount].position[1]
       <= ldInput.positions[3 * (sourceCount - 1) + 1]

C22_TextureIndexInAtlas ==
  /\ ~textureIndexArray.isNull =>
       \A n \in 1..Len(textureIndexArray.data) :
         textureIndexArray.data[n] \in {0, 1, 2, 3}
  /\ ~geomAttrs.aTextureIndex.isNull =>
       \A n \in 1..Len(geomAttrs.aTextureIndex.data) :
         geomAttrs.aTextureIndex.data[n] \in {0, 1, 2, 3}

\* a pool of several instances was uploaded whose indices include the
\* first and the last texture
C22_Witness ==
  /\ ~geomAttrs.aTextureIndex.isNull /\ Len(geomAttrs.aTextureIndex.data) >= 2
  /\ \E n \in 1..Len(geomAttrs.aTextureIndex.data) :
       geomAttrs.aTextureIndex.data[n] = 0
  /\ \E n \in 1..Len(geomAttrs.aTextureIndex.data) :
       geomAttrs.aTextureIndex.data[n] = 3

\* C23: in every reachable state the length of the published pool is a
\* non-negative integer not above the budget, for every source size and
\* every override.
C23_PoolWithinBudget ==
  /\ ~transforms.isNull =>
       Len(transforms.data) \in 0..REDUCED_INSTANCE_COUNT
  /\ ~mesh.matrices.isNull =>
       Len(mesh.matrices.data) \in 0..REDUCED_INSTANCE_COUNT

\* a pool of exactly budget instances, published by a load whose override
\* and whose source are both larger than the budget
C23_Witness ==
  /\ ~transforms.isNull /\ Len(transforms.data) = REDUCED_INSTANCE_COUNT
  /\ loads[transforms.load].instanceCount > REDUCED_INSTANCE_COUNT
  /\ mesh.matrices = transforms

\* -------------------------------------------- claims on the fragment stage
\* C24: every fragment whose world-space horizontal distance to the camera
\* exceeds the visibility radius (18.0) is discarded, and no fragment within
\* the radius is discarded by this test.
C24_CulledBeyondVisibilityRadius ==
  fsResult.done =>
    LET ex == fsInput.vPos[1] - fsInput.cameraPos[1]
        ez == fsInput.vPos[3] - fsInput.cameraPos[3]
    IN fsResult.discarded <=> (ex * ex + ez * ez > 1800 * 1800)

\* ------------------------------------------ claims on the parallel buffers
\* C25: every output instance i, with or without subsampling, has its
\* position, rotation, scale and color read from one and the same source
\* instance index k of the four parallel buffers.
C25_OneSourceIndexPerInstance ==
  ldResult.done =>
    \A i \in 0..(effectiveCount - 1) :
      \E k \in 0..(sourceCount - 1) :
        LET d == i * DrawsPerInstance
            out == ldResult.transformArray[i + 1]
        IN /\ out.position = positionOf(ldInput.positions, 3 * k)
           /\ out.rotation =
                << Add(At(ldInput.rotations, 3 * k), Mul(50, Random(ldInput.seed, d))),
                   Mul(At(ldInput.rotations, 3 * k + 1), Random(ldInput.seed, d + 1)),
                   Add(Add(At(ldInput.rotations, 3 * k + 2), -Scale),
                       Mul(50, Random(ldInput.seed, d + 2))) >>
           /\ out.scale = scaleOf(ldInput.scales, 3 * k, i, ldInput.seed)
           /\ \A c \in 1..3 :
                ldResult.instColors[3 * i + c]
                  = colorOf(ldInput.colors, 3 * k, i, ldInput.seed)[c]

\* ------------------------------------------- claims on the terrain search
\* C26: the traversal that runs while no terrain is cached registers the
\* first mesh in traversal order that passes the filters and stops; no later
\* qualifying mesh replaces it.
C26_FirstQualifyingMeshRegistered ==
  baseMesh # 0 =>
    /\ IsBaseMeshCandidate(scene[baseMesh])
    /\ \A j \in 1..(baseMesh - 1) : ~IsBaseMeshCandidate(scene[j])

C28_BendDirectionWellDefined ==
  (vsResult.done /\ vsResult.isInsideSphere) =>
    /\ IsNum(vsResult.bendDir[1]) /\ IsNum(vsResult.bendDir[2])
    /\ LET sq == vsResult.bendDir[1] * vsResult.bendDir[1]
                   + vsResult.bendDir[2] * vsResult.bendDir[2]
       IN 97 * 97 <= sq /\ sq <= 103 * 103
    /\ IsNum(vsResult.dx) /\ IsNum(vsResult.dz)

\* C29: each activation of the swarm control, a button click or a Space
\* keydown that is not a repeat, moves swarmMode one step along
\* normal -> swarm -> reverse -> normal, and no other event moves it;
\* swarmMode is always one of the three modes, and after N activations it is
\* N steps from 'normal', so every third activation brings it back.
C29_EachActivationAdvancesOneStep ==
  [][ /\ swarmMode \in {"normal", "swarm", "reverse"}
      /\ swarmMode' \in {"normal", "swarm", "reverse"}
      /\ events' = events + 1 =>
           LET activation == \/ lastEvent'.type = "click"
                             \/ /\ lastEvent'.type = "keydown"
                                /\ lastEvent'.code = "Space"
                                /\ ~lastEvent'.repeat
           IN /\ activation =>
                   /\ activations' = activations + 1
                   /\ indexOf(modes, swarmMode') =
                        (indexOf(modes, swarmMode) + 1) % 3
              /\ ~activation =>
                   /\ activations' = activations
                   /\ swarmMode' = swarmMode
      /\ swarmMode' = modes[(activations' % 3) + 1]
      /\ activations' % 3 = 0 => swarmMode' = "normal" ]_vars

\* three activations, by the key and by the button, with ignored key events
\* among them, and the mode is back at 'normal'
C29_Witness ==
  /\ activations = 3 /\ events > 4 /\ swarmMode = "normal"
  /\ lastEvent = [type |-> "keydown", code |-> "Space", repeat |-> FALSE]

\* C30: after a frame callback of PortalPlane the renderer and scene state it
\* touched is what it was before the callback: the render target, the
\* renderer's clippingPlanes and localClippingEnabled, xr.enabled,
\* shadowMap.autoUpdate, scene.background and scene.environment, the visible
\* flag of the portal plane and of every other object, and the
\* clippingPlanes of every material.
C30_FrameRestoresTouchedState ==
  portalFrames > 0 =>
    /\ gl.renderTarget = portalBefore.gl.renderTarget
    /\ gl.clippingPlanes = portalBefore.gl.clippingPlanes
    /\ gl.localClippingEnabled = portalBefore.gl.localClippingEnabled
    /\ gl.xrEnabled = portalBefore.gl.xrEnabled
    /\ gl.shadowAutoUpdate = portalBefore.gl.shadowAutoUpdate
    /\ portalScene.background = portalBefore.scene.background
    /\ portalScene.environment = portalBefore.scene.environment
    /\ \A i \in DOMAIN portalScene.children :
         /\ portalScene.children[i].visible = portalBefore.scene.children[i].visible
         /\ portalScene.children[i].materials =
              portalBefore.scene.children[i].materials

====
